---- MODULE Spec2Model ----
(***************************************************************************)
(* cpfinder (src/src/main.rs): a copy-paste detector.  main globs the      *)
(* source files, parse scans each file line by line, counting every        *)
(* eligible trimmed line in a character trie (TrieNode) and turning runs   *)
(* of lines already seen into CPLocation spans, and main finally sorts the *)
(* spans by length and prints the longest ones.                            *)
(*                                                                         *)
(* A line of text is a sequence of one-character strings.  A file is read  *)
(* one read_line call at a time; what the call returns (a line, end of     *)
(* file, an I/O error) is the environment's choice.                        *)
(***************************************************************************)
EXTENDS Integers, Sequences, FiniteSets, TLC

\* ------------------------------------------------------------------ bounds
MaxFiles == 2
MaxReads == 4
MaxInserts == 4
MaxSpans == 4

\* ------------------------------------------------------ program constants
DefaultMinLineCount == 6
DefaultMinCharCount == 80
DefaultTop == 30

VARIABLES
    pc,              \* where main is
    console,         \* what has been printed (kinds of message)
    bad_patterns,    \* history: the globs that were handed a malformed pattern
    ignore_folders,  \* main's ignore_folders: the ignore paths that were resolved
    source_files,    \* main's source_files
    min_line_count,  \* args.min_line_count
    min_char_count,  \* args.min_char_count
    list_top_result, \* args.list_top_result
    root,            \* the TrieNode shared by all files
    cp_locations,    \* main's cp_locations
    idx,             \* main's loop index i (1-based here)
    comments, cp_found, start, end, line_num, char_count,   \* parse's locals
    results,         \* history: what each call of parse returned, in call order
    hist,            \* history: per line of the current file, its trimmed text,
                     \* whether it was indexed and whether it was flagged duplicate
    reads,           \* history: number of read_line calls that returned a line
    reported,        \* the spans printed, in printing order
    disk,            \* contents of the files, when they are fixed beforehand
    calls,           \* history: the calls of TrieNode::insert and what they returned
    seen             \* history: the trimmed texts parse has handed to insert

vars == <<pc, console, bad_patterns, ignore_folders, source_files, min_line_count, min_char_count,
          list_top_result, root, cp_locations, idx, comments, cp_found, start, end,
          line_num, char_count, results, hist, reads, reported, disk, calls, seen>>

\* -------------------------------------------------------------------- text
WhiteSpace == {" ", "\n", "\t"}

RECURSIVE TrimStart(_)
TrimStart(s) ==
    IF s # <<>> /\ Head(s) \in WhiteSpace THEN TrimStart(Tail(s)) ELSE s

RECURSIVE TrimEnd(_)
TrimEnd(s) ==
    IF s # <<>> /\ s[Len(s)] \in WhiteSpace THEN TrimEnd(SubSeq(s, 1, Len(s) - 1)) ELSE s

Trim(s) == TrimEnd(TrimStart(s))

StartsWith(s, p) == Len(s) >= Len(p) /\ SubSeq(s, 1, Len(p)) = p

EndsWith(s, p) == Len(s) >= Len(p) /\ SubSeq(s, Len(s) - Len(p) + 1, Len(s)) = p

BlockOpen == <<"/", "*">>
BlockClose == <<"*", "/">>
LineComment == <<"/", "/">>

\* ---------------------------------------------------------------- TrieNode
\* A trie is the function from the path of each node to its occurence; the
\* root is the empty path, and a node's children are its one-longer paths.
TrieNew == (<<>> :> 0)

IsPrefix(p, s) == Len(p) <= Len(s) /\ SubSeq(s, 1, Len(p)) = p

\* The loop of insert with the child always created anew (its subtree lost).
RECURSIVE TrieWalkFresh(_, _, _)
TrieWalkFresh(trie, node, word) ==
    IF word = <<>> THEN [trie |-> trie, node |-> node]
    ELSE LET next == Append(node, Head(word))
             kept == {p \in DOMAIN trie : ~IsPrefix(next, p)}
             grown == [p \in kept \cup {next} |-> IF p = next THEN 0 ELSE trie[p]]
         IN  TrieWalkFresh(grown, next, Tail(word))

\* The loop of insert: walk from node along word, creating missing children.
RECURSIVE TrieWalk(_, _, _)
TrieWalk(trie, node, word) ==
    IF word = <<>> THEN [trie |-> trie, node |-> node]
    ELSE LET next == Append(node, Head(word))
             grown == IF next \in DOMAIN trie THEN trie ELSE trie @@ (next :> 0)
         IN  TrieWalk(grown, next, Tail(word))

\* The increment applied to every node on the path instead of the last one.
TrieBumpAll(trie, node) ==
    [p \in DOMAIN trie |-> IF p # <<>> /\ IsPrefix(p, node) THEN trie[p] + 1 ELSE trie[p]]

\* node.occurence += 1
TrieBump(trie, node) == [trie EXCEPT ![node] = @ + 1]

\* insert: the trie afterwards and the returned count.
TrieInsert(trie, word) ==
    LET w == TrieWalk(trie, <<>>, word)
        after == TrieBump(w.trie, w.node)
    IN  [trie |-> after, count |-> after[w.node]]

\* ------------------------------------------------------------------- globs
\* What glob makes of one pattern: a PatternError, no entry, an entry that is
\* a path under the folder "test", or an entry that is a GlobError.
PatternKinds == {"malformed", "none", "match", "unreadable"}

\* What the include glob yields per entry: a source file, a source file under
\* the folder "test", or a GlobError.
EntryKinds == {"src", "test", "unreadable"}

Msg(kind, n) == [msg |-> kind, n |-> n]

SeqsUpTo(S, n) == UNION {[1..k -> S] : k \in 0..n}

\* The patterns before the first malformed one (all of them when none is).
BeforePanic(pats) ==
    {k \in 1..Len(pats) : \A j \in 1..k : pats[j] # "malformed"}

\* compute_ignore_path, with the two patterns of one ignore folder.
ComputeIgnorePath ==
    /\ pc = "start"
    /\ \E pats \in [1..2 -> PatternKinds] :
         LET done == BeforePanic(pats)
             printed == IF \E k \in done : pats[k] = "unreadable"
                        THEN {Msg("GlobError", 0)} ELSE {}
         IN  /\ console' = console \cup printed
             /\ bad_patterns' = IF Cardinality(done) < Len(pats)
                                THEN bad_patterns \cup {"ignore"} ELSE bad_patterns
             /\ IF Cardinality(done) < Len(pats)
                THEN /\ pc' = "panic"
                     /\ UNCHANGED ignore_folders
                ELSE /\ pc' = "glob"
                     /\ ignore_folders' = IF \E k \in done : pats[k] = "match"
                                          THEN {"test"} ELSE {}
    /\ UNCHANGED <<source_files, min_line_count, min_char_count, list_top_result, root,
                   cp_locations, idx, comments, cp_found, start, end, line_num,
                   char_count, results, hist, reads, reported, disk, calls, seen>>

\* path_starts_with, for an entry of the include glob.
PathStartsWith(kind, ignore) == kind = "test" /\ "test" \in ignore

RECURSIVE KeptEntries(_, _, _)
KeptEntries(entries, k, ignore) ==
    IF k > Len(entries) THEN <<>>
    ELSE (IF entries[k] = "unreadable" \/ PathStartsWith(entries[k], ignore)
          THEN <<>> ELSE <<k>>) \o KeptEntries(entries, k + 1, ignore)

\* scan_folders and main up to the loop over the files: a source file is named
\* by its place among the entries of the include glob.
ScanFolders ==
    /\ pc = "glob"
    /\ \E include \in {"ok", "malformed"}, entries \in SeqsUpTo(EntryKinds, MaxFiles) :
         LET found == IF include = "malformed" THEN <<>>
                      ELSE KeptEntries(entries, 1, ignore_folders)
             printed == IF include = "ok" /\ \E k \in 1..Len(entries) : entries[k] = "unreadable"
                        THEN {Msg("GlobError", 0)} ELSE {}
         IN  /\ source_files' = found
             /\ bad_patterns' = IF include = "malformed"
                                THEN bad_patterns \cup {"include"} ELSE bad_patterns
             /\ console' = console \cup printed \cup {Msg("found", Len(found))}
    /\ root' = TrieNew
    /\ cp_locations' = <<>>
    /\ idx' = 1
    /\ pc' = "scan"
    /\ UNCHANGED <<ignore_folders, min_line_count, min_char_count, list_top_result,
                   comments, cp_found, start, end, line_num, char_count, results, hist,
                   reads, reported, disk, calls, seen>>

\* ------------------------------------------------------------------- parse
CommentsAfterNoLine(flag, line) ==
    LET opened == IF StartsWith(line, BlockOpen) THEN TRUE ELSE flag
    IN  IF EndsWith(line, BlockClose) THEN FALSE ELSE opened

CommentsAfterNoClose(flag, line) ==
    LET opened == IF StartsWith(line, BlockOpen) THEN TRUE ELSE flag
    IN  IF StartsWith(line, LineComment) THEN TRUE ELSE opened

\* The comment flag after lines 191-200 have looked at the trimmed line.
CommentsAfter(flag, line) ==
    LET opened == IF StartsWith(line, BlockOpen) THEN TRUE ELSE flag
        closed == IF EndsWith(line, BlockClose) THEN FALSE ELSE opened
    IN  IF StartsWith(line, LineComment) THEN TRUE ELSE closed

ShouldIndexBlank(flag, line) == ~flag

\* should_index
ShouldIndex(flag, line) == ~flag /\ line # <<>>

IsDuplicateFirst(count) == count >= 1

IsDuplicateThird(count) == count > 2

\* The test of line 207 on the count insert returned.
IsDuplicate(count) == count > 1

AcceptsEither(range, chars, min_lines, min_chars) ==
    range >= min_lines \/ chars >= min_chars

\* The test of line 227.
Accepts(range, chars, min_lines, min_chars) ==
    range >= min_lines /\ chars >= min_chars

RunStartLate(found, s, n) == n

\* Lines 217-219: the start of the run the line n belongs to.
RunStart(found, s, n) == IF found THEN s ELSE n

CountKept(count) == count

\* Line 236.
CountClosed(count) == 0

CPLocation(filepath, s, e) == [filepath |-> filepath, start |-> s, end |-> e]

KeepLocal(old, fresh) == old

\* A local of parse, declared and initialised in the call: what it held before
\* does not matter.
FreshLocal(old, fresh) == fresh

\* File::open succeeds: the locals of lines 176-181.
ParseOpen ==
    /\ pc = "scan"
    /\ idx <= Len(source_files)
    /\ comments' = FreshLocal(comments, FALSE)
    /\ cp_found' = FreshLocal(cp_found, FALSE)
    /\ start' = FreshLocal(start, 0)
    /\ end' = FreshLocal(end, 0)
    /\ line_num' = FreshLocal(line_num, 1)
    /\ char_count' = FreshLocal(char_count, 0)
    /\ hist' = <<>>
    /\ pc' = "read"
    /\ UNCHANGED <<console, bad_patterns, ignore_folders, source_files, min_line_count, min_char_count,
                   list_top_result, root, cp_locations, idx, results, reads, reported,
                   disk, calls, seen>>

\* parse returns to main, which drops the result and goes to the next file;
\* the locals of parse are dead and keep what they held.
Return(r) ==
    /\ results' = Append(results, r)
    /\ idx' = idx + 1
    /\ pc' = "scan"
    /\ UNCHANGED <<comments, cp_found, start, end, line_num, char_count>>
    /\ hist' = <<>>

\* File::open fails: parse returns the error at line 173.
ParseOpenFail ==
    /\ pc = "scan"
    /\ idx <= Len(source_files)
    /\ Return("Err")
    /\ UNCHANGED <<console, bad_patterns, ignore_folders, source_files, min_line_count, min_char_count,
                   list_top_result, root, cp_locations, reads, reported, disk, calls, seen>>

\* One turn of the loop in which read_line returned the line raw.
ReadLine(raw) ==
    /\ pc = "read"
    /\ LET line == Trim(raw)
           flag == CommentsAfter(comments, line)
           should_index == ShouldIndex(flag, line)
           ins == TrieInsert(root, line)
           next_cp_found == should_index /\ IsDuplicate(ins.count)
           range == end - start + 1
       IN  /\ comments' = flag
           /\ root' = IF should_index THEN ins.trie ELSE root
           /\ IF next_cp_found
              THEN /\ start' = RunStart(cp_found, start, line_num)
                   /\ end' = line_num
                   /\ char_count' = char_count + Len(line)
                   /\ cp_found' = TRUE
                   /\ UNCHANGED cp_locations
              ELSE /\ cp_locations' =
                        IF cp_found /\ Accepts(range, char_count, min_line_count, min_char_count)
                        THEN Append(cp_locations, CPLocation(source_files[idx], start, end))
                        ELSE cp_locations
                   /\ char_count' = CountClosed(char_count)
                   /\ cp_found' = FALSE
                   /\ UNCHANGED <<start, end>>
           /\ hist' = Append(hist, [text |-> line, index |-> should_index,
                                   dup |-> next_cp_found])
           /\ seen' = IF should_index THEN seen \cup {line} ELSE seen
    /\ line_num' = line_num + 1
    /\ reads' = reads + 1
    /\ UNCHANGED <<pc, console, bad_patterns, ignore_folders, source_files, min_line_count,
                   min_char_count, list_top_result, idx, results, reported, disk, calls>>

\* read_line returned 0: the loop breaks and parse returns Ok.
ReadEof ==
    /\ pc = "read"
    /\ Return("Ok")
    /\ UNCHANGED <<console, bad_patterns, ignore_folders, source_files, min_line_count, min_char_count,
                   list_top_result, root, cp_locations, reads, reported, disk, calls, seen>>

\* read_line failed: parse returns the error at line 184.
ReadErr ==
    /\ pc = "read"
    /\ Return("Err")
    /\ UNCHANGED <<console, bad_patterns, ignore_folders, source_files, min_line_count, min_char_count,
                   list_top_result, root, cp_locations, reads, reported, disk, calls, seen>>

\* ------------------------------------------------------------------ report
SpanLen(l) == l.end - l.start + 1

\* x put before the elements of the sorted s whose key is not smaller.
RECURSIVE InsertByKeyStrict(_, _)
InsertByKeyStrict(s, x) ==
    IF s = <<>> THEN <<x>>
    ELSE IF SpanLen(s[Len(s)]) < SpanLen(x) THEN Append(s, x)
    ELSE Append(InsertByKeyStrict(SubSeq(s, 1, Len(s) - 1), x), s[Len(s)])

\* x put behind the last element of the sorted s whose key is not larger.
RECURSIVE InsertByKey(_, _)
InsertByKey(s, x) ==
    IF s = <<>> THEN <<x>>
    ELSE IF SpanLen(s[Len(s)]) <= SpanLen(x) THEN Append(s, x)
    ELSE Append(InsertByKey(SubSeq(s, 1, Len(s) - 1), x), s[Len(s)])

\* sort_by_key(|l| l.end - l.start + 1): stable, ascending.
RECURSIVE SortByKey(_)
SortByKey(s) ==
    IF s = <<>> THEN <<>>
    ELSE InsertByKey(SortByKey(SubSeq(s, 1, Len(s) - 1)), s[Len(s)])

Reverse(s) == [k \in 1..Len(s) |-> s[Len(s) + 1 - k]]

Min(a, b) == IF a < b THEN a ELSE b

SliceEndTop(n, top) == top

\* The end of the slice of line 289.
SliceEnd(n, top) == Min(n, top)

RankedAscending(spans, top) == SubSeq(SortByKey(spans), 1, SliceEnd(Len(spans), top))

\* Lines 286-289: what is printed, in order.
Ranked(spans, top) == SubSeq(Reverse(SortByKey(spans)), 1, SliceEnd(Len(spans), top))

\* Lines 286-296; a slice that ends behind the last span panics.
Report ==
    /\ pc = "scan"
    /\ idx > Len(source_files)
    /\ console' = console \cup {Msg("top", list_top_result)}
    /\ IF SliceEnd(Len(cp_locations), list_top_result) > Len(cp_locations)
       THEN /\ pc' = "panic"
            /\ UNCHANGED reported
       ELSE /\ pc' = "done"
            /\ reported' = Ranked(cp_locations, list_top_result)
    /\ UNCHANGED <<bad_patterns, ignore_folders, source_files, min_line_count, min_char_count,
                   list_top_result, root, cp_locations, idx, comments, cp_found, start,
                   end, line_num, char_count, results, hist, reads, disk, calls, seen>>

\* ----------------------------------------------------------- specification
\* The lines read_line may return: a code line, plain and indented, a blank line, a line comment, the two lines of a block comment,
\* and a block comment on one line.
Pool ==
    { <<"a", "b", "\n">>,
      <<" ", "a", "b", "\n">>,
      <<"\n">>,
      <<"/", "/", "a", "\n">>,
      <<"/", "*", "\n">>,
      <<"a", "*", "/", "\n">>,
      <<"/", "*", "a", "*", "/", "\n">> }

MinLineChoices == {1, 2}
MinCharChoices == {1, 3}
TopChoices == {1, 2}

InitArgs ==
    /\ min_line_count \in MinLineChoices
    /\ min_char_count \in MinCharChoices
    /\ list_top_result \in TopChoices

InitLocals ==
    /\ comments = FALSE
    /\ cp_found = FALSE
    /\ start = 0
    /\ end = 0
    /\ line_num = 1
    /\ char_count = 0
    /\ hist = <<>>
    /\ reads = 0

Init ==
    /\ pc = "start"
    /\ console = {}
    /\ bad_patterns = {}
    /\ ignore_folders = {}
    /\ source_files = <<>>
    /\ InitArgs
    /\ root = TrieNew
    /\ cp_locations = <<>>
    /\ idx = 1
    /\ InitLocals
    /\ results = <<>>
    /\ reported = <<>>
    /\ disk = <<>>
    /\ calls = <<>>
    /\ seen = {}

\* read_line returns any line of the pool.
ReadAny ==
    /\ reads < MaxReads
    /\ \E raw \in Pool : ReadLine(raw)

Next ==
    \/ ComputeIgnorePath
    \/ ScanFolders
    \/ ParseOpen
    \/ ParseOpenFail
    \/ ReadAny
    \/ ReadEof
    \/ ReadErr
    \/ Report

Spec == Init /\ [][Next]_vars

\* The scan alone: main has found the files and enters the loop over them.
InitParse ==
    /\ pc = "scan"
    /\ \E n \in 0..MaxFiles :
         /\ source_files = [k \in 1..n |-> k]
         /\ console = {Msg("found", n)}
    /\ bad_patterns = {}
    /\ ignore_folders = {}
    /\ min_line_count \in MinLineChoices
    /\ min_char_count \in MinCharChoices
    /\ list_top_result = DefaultTop
    /\ root = TrieNew
    /\ cp_locations = <<>>
    /\ idx = 1
    /\ InitLocals
    /\ results = <<>>
    /\ reported = <<>>
    /\ disk = <<>>
    /\ calls = <<>>
    /\ seen = {}

NextParse ==
    \/ ParseOpen
    \/ ParseOpenFail
    \/ ReadAny
    \/ ReadEof
    \/ ReadErr
    \/ Report

SpecParse == InitParse /\ [][NextParse]_vars

\* The scan with top-N 0 as well, every step of main being taken in the end.
InitRun ==
    /\ pc = "scan"
    /\ \E n \in 0..MaxFiles :
         /\ source_files = [k \in 1..n |-> k]
         /\ console = {Msg("found", n)}
    /\ bad_patterns = {}
    /\ ignore_folders = {}
    /\ min_line_count \in MinLineChoices
    /\ min_char_count \in MinCharChoices
    /\ list_top_result \in {0, DefaultTop}
    /\ root = TrieNew
    /\ cp_locations = <<>>
    /\ idx = 1
    /\ InitLocals
    /\ results = <<>>
    /\ reported = <<>>
    /\ disk = <<>>
    /\ calls = <<>>
    /\ seen = {}

\* read_line returns a code line, a blank line or a line ending a comment.
ReadSome ==
    /\ reads < MaxReads
    /\ \E raw \in {<<"a", "b", "\n">>, <<"\n">>, <<"a", "*", "/", "\n">>} : ReadLine(raw)

NextRun ==
    \/ ParseOpen
    \/ ParseOpenFail
    \/ ReadSome
    \/ ReadEof
    \/ ReadErr
    \/ Report

SpecRun == InitRun /\ [][NextRun]_vars /\ WF_vars(NextRun)

\* ------------------------------------------------- TrieNode::insert alone
\* Texts to insert: the empty text, two texts one a prefix of the other, and
\* a text that shares nothing with them.
Words == { <<>>, <<"a">>, <<"a", "b">>, <<"b">> }

\* One call root.insert(word) on the index built by the calls so far.
InsertCall ==
    /\ pc = "insert"
    /\ Len(calls) < MaxInserts
    /\ \E word \in Words :
         LET ins == TrieInsert(root, word)
         IN  /\ root' = ins.trie
             /\ calls' = Append(calls, [word |-> word, count |-> ins.count])
    /\ UNCHANGED <<pc, console, bad_patterns, ignore_folders, source_files, min_line_count,
                   min_char_count, list_top_result, cp_locations, idx, comments, cp_found,
                   start, end, line_num, char_count, results, hist, reads, reported, disk,
                   seen>>

InitTrie ==
    /\ pc = "insert"
    /\ console = {}
    /\ bad_patterns = {}
    /\ ignore_folders = {}
    /\ source_files = <<>>
    /\ min_line_count = DefaultMinLineCount
    /\ min_char_count = DefaultMinCharCount
    /\ list_top_result = DefaultTop
    /\ root = TrieNew
    /\ cp_locations = <<>>
    /\ idx = 1
    /\ InitLocals
    /\ results = <<>>
    /\ reported = <<>>
    /\ disk = <<>>
    /\ calls = <<>>
    /\ seen = {}

NextTrie == InsertCall

SpecTrie == InitTrie /\ [][NextTrie]_vars

\* ------------------------------------------------------ the ranking alone
\* Spans of 1, 3, 7 and 10 lines in either of two files.
SpanChoices ==
    {CPLocation(f, 2, 1 + n) : f \in 1..2, n \in {1, 3, 7, 10}}

\* main after the loop over two files, with any spans collected.
InitRank ==
    /\ pc = "scan"
    /\ console = {Msg("found", 2)}
    /\ bad_patterns = {}
    /\ ignore_folders = {}
    /\ source_files = <<1, 2>>
    /\ min_line_count = 1
    /\ min_char_count = 1
    /\ list_top_result \in 0..(MaxSpans + 1)
    /\ root = TrieNew
    /\ cp_locations \in SeqsUpTo(SpanChoices, MaxSpans)
    /\ idx = 3
    /\ InitLocals
    /\ results = <<"Ok", "Ok">>
    /\ reported = <<>>
    /\ disk = <<>>
    /\ calls = <<>>
    /\ seen = {}

NextRank == Report

SpecRank == InitRank /\ [][NextRank]_vars

\* ------------------------------------------- two files with the same block
Digits == <<"1", "2", "3", "4", "5", "6", "7", "8">>

\* Line k of the block: 12 characters and the newline.
BlockLine(k) == <<"c", "o", "d", "e", "_", "l", "i", "n", "e", "_", "0", Digits[k], "\n">>

Block == [k \in 1..8 |-> BlockLine(k)]

Blank == <<"\n">>

\* A line that occurs nowhere else.
Unique(f) == <<"e", "n", "d", "_", Digits[f], "\n">>

\* File f: maybe a blank line, the block, maybe a blank line or a line of its own.
FileChoices(f) ==
    {pre \o Block \o post : pre \in {<<>>, <<Blank>>},
                            post \in {<<>>, <<Blank>>, <<Unique(f)>>}}

InitScenario ==
    /\ pc = "scan"
    /\ console = {Msg("found", 2)}
    /\ bad_patterns = {}
    /\ ignore_folders = {}
    /\ source_files = <<1, 2>>
    /\ min_line_count = DefaultMinLineCount
    /\ min_char_count = DefaultMinCharCount
    /\ list_top_result = DefaultTop
    /\ root = TrieNew
    /\ cp_locations = <<>>
    /\ idx = 1
    /\ InitLocals
    /\ results = <<>>
    /\ reported = <<>>
    /\ disk \in {<<f1, f2>> : f1 \in FileChoices(1), f2 \in FileChoices(2)}
    /\ calls = <<>>
    /\ seen = {}

\* read_line returns the next line of the file on disk.
ReadDisk ==
    /\ pc = "read"
    /\ line_num <= Len(disk[source_files[idx]])
    /\ ReadLine(disk[source_files[idx]][line_num])

\* read_line returns 0 at the end of the file on disk.
EofDisk ==
    /\ pc = "read"
    /\ line_num > Len(disk[source_files[idx]])
    /\ ReadEof

NextScenario ==
    \/ ParseOpen
    \/ ParseOpenFail
    \/ ReadDisk
    \/ EofDisk
    \/ ReadErr
    \/ Report

SpecScenario == InitScenario /\ [][NextScenario]_vars

\* ================================================================== claims
\* What the history says, independently of the locals of parse.

\* The number of lines at the end of h that were flagged duplicate.
RECURSIVE RunLen(_)
RunLen(h) ==
    IF h = <<>> \/ ~h[Len(h)].dup THEN 0 ELSE 1 + RunLen(SubSeq(h, 1, Len(h) - 1))

\* The summed trimmed length of lines s..e.
RECURSIVE SumLen(_, _, _)
SumLen(h, s, e) == IF s > e THEN 0 ELSE Len(h[e].text) + SumLen(h, s, e - 1)

ThisFile == source_files[idx]

\* The run the file read so far ends with, as a span, and whether it meets
\* both thresholds.
TrailingSpan == CPLocation(ThisFile, Len(hist) - RunLen(hist) + 1, Len(hist))

TrailingMeets ==
    /\ RunLen(hist) >= min_line_count
    /\ SumLen(hist, Len(hist) - RunLen(hist) + 1, Len(hist)) >= min_char_count

\* The steps of parse: a line was read; the end of the file was reached.
LineStep == pc = "read" /\ pc' = "read" /\ Len(hist') = Len(hist) + 1

EofStep == pc = "read" /\ pc' = "scan" /\ results' = Append(results, "Ok")

NewLine == hist'[Len(hist')]

\* Whether a block comment is open after line k of h, by the text alone.
RECURSIVE InBlockAfter(_, _)
InBlockAfter(h, k) ==
    IF k = 0 THEN FALSE
    ELSE IF EndsWith(h[k].text, BlockClose) THEN FALSE
    ELSE IF StartsWith(h[k].text, BlockOpen) THEN TRUE
    ELSE InBlockAfter(h, k - 1)

IsCommentLine(h, k) ==
    \/ StartsWith(h[k].text, LineComment)
    \/ StartsWith(h[k].text, BlockOpen)
    \/ InBlockAfter(h, k - 1)

IsBlankLine(h, k) == h[k].text = <<>>

\* C1: when the end of the file is reached inside a run that meets both
\* thresholds, the span of that run is added to the result list.
C1_EofClosesRun ==
    [][(EofStep /\ RunLen(hist) > 0 /\ TrailingMeets)
         => cp_locations' = Append(cp_locations, TrailingSpan)]_vars

\* Where the block starts in file f on disk, and the span of its 8 lines.
BlockStart(f) == IF disk[f][1] = Blank THEN 2 ELSE 1

BlockSpan(f) == CPLocation(f, BlockStart(f), BlockStart(f) + 7)

BothRead == pc = "done" /\ results = <<"Ok", "Ok">>

C3_RunYieldsSpanIffThresholds ==
    [][/\ ((EofStep \/ (LineStep /\ ~NewLine.dup)) /\ RunLen(hist) > 0)
            => cp_locations' = IF TrailingMeets THEN Append(cp_locations, TrailingSpan)
                               ELSE cp_locations
       /\ (LineStep /\ (NewLine.dup \/ RunLen(hist) = 0))
            => cp_locations' = cp_locations]_vars

\* The count the index holds for a text.
TrieCount(trie, word) == IF word \in DOMAIN trie THEN trie[word] ELSE 0

Earlier(k) == {j \in 1..(k - 1) : calls[j].word = calls[k].word}

\* C4: N calls of insert with one and the same text on a fresh index return
\* 1, 2, ..., N in that order.
C4_RepeatedInsertCounts ==
    (\A j, k \in 1..Len(calls) : calls[j].word = calls[k].word)
        => \A k \in 1..Len(calls) : calls[k].count = k

C4_Witness ==
    /\ Len(calls) >= 3
    /\ \A k \in 1..Len(calls) : calls[k].word = <<"a", "b">>

\* C5: insert returns 1 plus the number of earlier inserts of exactly the same
\* text, and the index holds for every text the number of its inserts, as a
\* flat frequency table would, prefixes included.
C5_TrieIsFrequencyTable ==
    /\ \A k \in 1..Len(calls) : calls[k].count = 1 + Cardinality(Earlier(k))
    /\ \A w \in Words :
         TrieCount(root, w) = Cardinality({j \in 1..Len(calls) : calls[j].word = w})

C5_Witness ==
    \E j, k \in 1..Len(calls) :
        /\ j < k
        /\ calls[j].word = <<"a", "b">>
        /\ calls[k].word = <<"a">>
        /\ calls[k].count = 1

\* C6: a blank line or a comment line read inside a run ends the run there:
\* the line is not flagged, the run is evaluated on its own, and the scan is
\* idle with a character count of 0 afterwards.
C6_CommentOrBlankSplitsRuns ==
    [][(/\ LineStep
        /\ RunLen(hist) > 0
        /\ IsBlankLine(hist', Len(hist')) \/ IsCommentLine(hist', Len(hist')))
         => /\ ~NewLine.dup
            /\ ~cp_found'
            /\ char_count' = 0
            /\ cp_locations' = IF TrailingMeets THEN Append(cp_locations, TrailingSpan)
                               ELSE cp_locations]_vars

Lengths(spans) == [k \in 1..Len(spans) |-> SpanLen(spans[k])]

Occurs(spans, l) == Cardinality({k \in 1..Len(spans) : spans[k] = l})

\* C7: what is reported is the collected spans in non-increasing order of
\* length, cut to the first top-N, all of them when there are fewer; lengths
\* 3, 10, 1, 7 with top-N = 2 are reported as 10, 7.
C7_ReportIsTopNByLength ==
    pc = "done" =>
        /\ Len(reported) = Min(Len(cp_locations), list_top_result)
        /\ \A k \in 1..(Len(reported) - 1) : SpanLen(reported[k]) >= SpanLen(reported[k + 1])
        /\ \A l \in SpanChoices :
             /\ Occurs(reported, l) <= Occurs(cp_locations, l)
             /\ Occurs(reported, l) < Occurs(cp_locations, l)
                  => \A k \in 1..Len(reported) : SpanLen(reported[k]) >= SpanLen(l)
        /\ (Lengths(cp_locations) = <<3, 10, 1, 7>> /\ list_top_result = 2)
             => Lengths(reported) = <<10, 7>>

C7_Witness ==
    /\ pc = "done"
    /\ Lengths(cp_locations) = <<3, 10, 1, 7>>
    /\ list_top_result = 2
    /\ Lengths(reported) = <<10, 7>>

\* C8: the result list only ever grows by one span of the file being read,
\* whose number of lines is at least min-line-count and whose lines' summed
\* trimmed length is at least min-char-count.
C8_SpansMeetThresholds ==
    [][cp_locations' # cp_locations
         => /\ pc = "read"
            /\ Len(cp_locations') = Len(cp_locations) + 1
            /\ SubSeq(cp_locations', 1, Len(cp_locations)) = cp_locations
            /\ LET l == cp_locations'[Len(cp_locations')]
               IN  /\ l.filepath = ThisFile
                   /\ 1 <= l.start /\ l.start <= l.end /\ l.end <= Len(hist)
                   /\ SpanLen(l) >= min_line_count
                   /\ SumLen(hist, l.start, l.end) >= min_char_count]_vars

C8_Witness ==
    /\ min_line_count = 2
    /\ min_char_count = 3
    /\ cp_locations # <<>>

\* C9: a file whose open or read failed has no span in the result list.
C9_FailedFileHasNoSpan ==
    \A k \in 1..Len(results) :
        results[k] = "Err"
            => \A j \in 1..Len(cp_locations) : cp_locations[j].filepath # source_files[k]

\* C10: a malformed include or ignore pattern is reported to the console and
\* the run does not abort.
C10_MalformedPatternSkipped ==
    /\ pc # "panic"
    /\ bad_patterns # {} => Msg("PatternError", 0) \in console

\* C11: the scan never crashes (no subtraction below zero at line 226 or in
\* the sort key, no slice behind the last span) and always reaches the end of
\* the report; with no file it reports zero files found and no span.
C11_AlwaysReports ==
    /\ [](/\ pc # "panic"
          /\ cp_found => (1 <= start /\ start <= end)
          /\ \A k \in 1..Len(cp_locations) : cp_locations[k].start <= cp_locations[k].end
          /\ (pc = "done" /\ source_files = <<>>)
               => (Msg("found", 0) \in console /\ cp_locations = <<>> /\ reported = <<>>))
    /\ <>[](pc = "done")

C11_Witness ==
    /\ pc = "done"
    /\ source_files = <<>>
    /\ list_top_result = 0
    /\ Msg("found", 0) \in console
    /\ reported = <<>>

\* C12: a line that opens and closes a block comment (`/* ... */` on one
\* line) is not indexed, is not inserted into the counter and is not flagged
\* duplicate.
C12_OneLineBlockCommentIgnored ==
    [][(LineStep /\ StartsWith(NewLine.text, BlockOpen) /\ EndsWith(NewLine.text, BlockClose))
          => (~NewLine.index /\ ~NewLine.dup /\ root' = root)]_vars

\* Whether some line of h starts with `//` and no later line of h ends with
\* `*/` without starting with `//`.
SlashPending(h) ==
    \E i \in 1..Len(h) :
        /\ StartsWith(h[i].text, LineComment)
        /\ \A j \in (i + 1)..Len(h) :
              ~(EndsWith(h[j].text, BlockClose) /\ ~StartsWith(h[j].text, LineComment))

Closes(line) == EndsWith(line, BlockClose) /\ ~StartsWith(line, LineComment)

\* C13: after a line that starts with `//`, every line of the file read
\* before a line that ends with `*/` and does not start with `//` leaves the
\* comment flag set, is not indexed, is not inserted and is not flagged.
C13_LineCommentPersists ==
    [][(LineStep /\ SlashPending(hist) /\ ~Closes(NewLine.text))
          => (comments /\ comments' /\ ~NewLine.index /\ ~NewLine.dup
              /\ ~cp_found' /\ root' = root /\ seen' = seen)]_vars

C13_Witness ==
    /\ pc = "read"
    /\ Len(hist) = 3
    /\ hist[1].index /\ hist[1].text = <<"a", "b">>
    /\ StartsWith(hist[2].text, LineComment)
    /\ hist[3].text = <<"a", "b">> /\ ~hist[3].index /\ ~hist[3].dup
    /\ comments

\* C14: a line is flagged duplicate iff it is indexed (comment flag clear
\* after the line's own updates, trimmed text not empty) and its trimmed text
\* was inserted by an earlier indexed line of this or of an earlier file; a
\* line that is not indexed leaves the counter as it is.
C14_FlaggedIffSeenBefore ==
    [][LineStep
          => /\ NewLine.index <=> (~comments' /\ NewLine.text # <<>>)
             /\ NewLine.dup <=> (NewLine.index /\ NewLine.text \in seen)
             /\ (~NewLine.index) => (root' = root)
             /\ NewLine.index
                  => (TrieCount(root', NewLine.text) = TrieCount(root, NewLine.text) + 1)]_vars

C14_Witness ==
    /\ pc = "read"
    /\ idx = 2
    /\ Len(hist) = 2
    /\ hist[1].dup /\ hist[1].index
    /\ hist[2].index /\ ~hist[2].dup
    /\ TrieCount(root, hist[1].text) = 2

\* C15: opening a file starts the scan state afresh (comment flag and run
\* flag clear, line number 1, character count 0, start and end 0) whatever
\* the previous file left, and leaves the counter and the spans found so far
\* as they are; the end of a file leaves the counter as it is.
C15_LocalsFreshPerFile ==
    [][((pc = "scan" /\ pc' = "read")
           => (/\ ~comments' /\ ~cp_found'
               /\ start' = 0 /\ end' = 0
               /\ line_num' = 1 /\ char_count' = 0
               /\ hist' = <<>>
               /\ root' = root /\ cp_locations' = cp_locations))
       /\ ((pc = "read" /\ pc' = "scan") => (root' = root /\ seen' = seen))]_vars

\* The second file was opened; the first one ended inside a run.
C15_Witness ==
    /\ pc = "read"
    /\ idx = 2
    /\ results = <<"Ok">>
    /\ hist = <<>>
    /\ ~cp_found /\ ~comments /\ line_num = 1 /\ char_count = 0
    /\ TrieCount(root, <<"a", "b">>) = 2
    /\ cp_locations = <<>>

\* The spans found in the file being read.
SpansHere == {k \in 1..Len(cp_locations) : cp_locations[k].filepath = ThisFile}

\* C16: every span has 1 <= start <= end in physical line numbers counted
\* from 1 (every line read advances the number), all its lines were flagged
\* duplicate, and the lines before its start and after its end were not.
C16_SpansAreMaximalRuns ==
    /\ \A k \in 1..Len(cp_locations) :
          1 <= cp_locations[k].start /\ cp_locations[k].start <= cp_locations[k].end
    /\ pc = "read"
         => /\ line_num = Len(hist) + 1
            /\ \A k \in SpansHere :
                  LET l == cp_locations[k]
                  IN  /\ l.end < Len(hist)
                      /\ \A j \in l.start..l.end : hist[j].dup
                      /\ l.start > 1 => ~hist[l.start - 1].dup
                      /\ ~hist[l.end + 1].dup

C16_Witness ==
    /\ pc = "read"
    /\ \E k \in SpansHere :
          /\ cp_locations[k].start = 2
          /\ cp_locations[k].end = 3
          /\ Len(hist) = 4

\* C17: after each line, outside a run the character count is 0, and inside
\* a run (which then ends at the line just read) it is the summed trimmed
\* length of the lines from start to end; this holds after a run was closed
\* with or without a span.
C17_CharCountFollowsRun ==
    pc = "read"
        => /\ cp_found <=> RunLen(hist) > 0
           /\ ~cp_found => char_count = 0
           /\ cp_found
                => /\ end = Len(hist)
                   /\ start = Len(hist) - RunLen(hist) + 1
                   /\ char_count = SumLen(hist, start, end)

\* A second run is open after an earlier run of the file was closed without
\* a span.
C17_Witness ==
    /\ pc = "read"
    /\ Len(hist) = 3
    /\ hist[1].dup /\ ~hist[2].dup /\ hist[3].dup
    /\ SpansHere = {}
    /\ cp_found /\ start = 3 /\ end = 3
    /\ char_count = Len(hist[3].text)
    /\ char_count > 0

\* Whether line j of the file being read is the first indexed line with its
\* text in the whole scan: no earlier line of the file has it, and the
\* counter holds no more insertions of it than the file has made.
FirstOccurrence(j) ==
    /\ hist[j].index
    /\ \A i \in 1..(j - 1) : ~(hist[i].index /\ hist[i].text = hist[j].text)
    /\ TrieCount(root, hist[j].text)
         = Cardinality({i \in 1..Len(hist) : hist[i].index /\ hist[i].text = hist[j].text})

\* C18: the first indexed occurrence of a text in the whole scan gets
\* count 1, is not flagged duplicate and lies in no span; so a span never
\* covers the copy of a block read first.
C18_FirstOccurrenceNeverReported ==
    [][LineStep
          => /\ (NewLine.index /\ NewLine.text \notin seen)
                  => (TrieCount(root', NewLine.text) = 1 /\ ~NewLine.dup /\ ~cp_found')
             /\ \A j \in 1..Len(hist') :
                   FirstOccurrence(j)'
                       => /\ ~hist'[j].dup
                          /\ \A k \in SpansHere' :
                                ~(cp_locations'[k].start <= j /\ j <= cp_locations'[k].end)]_vars

\* The second file holds a span and the first one, where the same lines
\* were read first, holds none.
C18_Witness ==
    /\ pc = "read"
    /\ idx = 2
    /\ SpansHere # {}
    /\ \A k \in 1..Len(cp_locations) : cp_locations[k].filepath = ThisFile
    /\ \E j \in 1..Len(hist) : FirstOccurrence(j)

\* The place of the k-th collected span in a ranking by length, longest
\* first, and among equal lengths the span collected later first.
RankPos(k) ==
    1 + Cardinality({j \in 1..Len(cp_locations) :
                        \/ SpanLen(cp_locations[j]) > SpanLen(cp_locations[k])
                        \/ /\ SpanLen(cp_locations[j]) = SpanLen(cp_locations[k])
                           /\ j > k})

\* C19: spans of equal length are reported in the reverse of the order they
\* were collected in, so a cut to top-N keeps the span collected later.
C19_EqualLengthsLatestFirst ==
    pc = "done"
        => \A k \in 1..Len(cp_locations) :
             RankPos(k) <= Len(reported) => reported[RankPos(k)] = cp_locations[k]

\* Two spans of length 3, one per file, cut to one: the second is reported.
C19_Witness ==
    /\ pc = "done"
    /\ cp_locations = <<CPLocation(1, 2, 4), CPLocation(2, 2, 4)>>
    /\ list_top_result = 1
    /\ reported = <<CPLocation(2, 2, 4)>>

\* C20: a line that ends with `*/` and starts with neither `/*` nor `//`
\* (the last line of a block comment) clears the comment flag and is
\* indexed: it is inserted into the counter and flagged duplicate exactly
\* when its text was inserted before, and then it starts or extends a run.
C20_ClosingLineIsIndexed ==
    [][(/\ LineStep
        /\ EndsWith(NewLine.text, BlockClose)
        /\ ~StartsWith(NewLine.text, BlockOpen)
        /\ ~StartsWith(NewLine.text, LineComment))
          => (/\ ~comments'
              /\ NewLine.index
              /\ TrieCount(root', NewLine.text) = TrieCount(root, NewLine.text) + 1
              /\ NewLine.dup <=> (NewLine.text \in seen)
              /\ NewLine.dup
                   => (/\ cp_found'
                       /\ end' = line_num
                       /\ start' = (IF cp_found THEN start ELSE line_num)))]_vars

\* The line `a*/` closes a block comment opened by the line before it and is
\* flagged duplicate.
C20_Witness ==
    /\ pc = "read"
    /\ Len(hist) = 2
    /\ hist[1].text = BlockOpen /\ ~hist[1].index
    /\ hist[2].text = <<"a">> \o BlockClose
    /\ hist[2].index /\ hist[2].dup
    /\ cp_found /\ start = 2 /\ end = 2

====
